---- MODULE Spec2Model ----
(***************************************************************************)
(* The photo-collage controller (PhotoCollage component) as a state        *)
(* machine: six cards on six slots, the input lock, the timers of the      *)
(* two-phase z-order commit, the entrance animation and the touch          *)
(* gestures.  Every JavaScript task (event handler, timer callback,        *)
(* animation-completion callback) is one atomic action.                    *)
(***************************************************************************)
EXTENDS Integers, Sequences, FiniteSets, TLC

VARIABLES
    cards,                \* useState<Card[]>: card id -> [position, zIndex, currentPhotoIndex]
    animationStates,      \* useState<CardAnimationMap>: card id -> animation state
    hasCompletedEntrance, \* useState(false)
    isInView,             \* useState(false)
    isAnimatingRef,       \* useRef(false): the synchronous half of the input lock
    buttonsDisabled,      \* useState(false): the rendered half of the input lock
    touchStartX,          \* useRef<number>(0)
    touchStartY,          \* useRef<number>(0)
    timers,               \* pending setTimeout callbacks, in registration order
    animating,            \* rendering layer: the variant each card is animating to, or "NONE"
    clock,                \* history: milliseconds elapsed since the last accepted request
    everInView,           \* history: the viewport has been entered at least once
    shuffleCount,         \* history: the number of shuffle requests accepted so far
    lastEvent             \* history: the event the last step handled

vars == <<cards, animationStates, hasCompletedEntrance, isInView, isAnimatingRef,
          buttonsDisabled, touchStartX, touchStartY, timers, animating, clock,
          everInView, shuffleCount, lastEvent>>

\* the number of shuffle requests the environment gets accepted in a run
MaxShuffles == 4

(***************************************************************************)
(* Card registry                                                           *)
(***************************************************************************)
CardIds == {"A", "B", "C", "D", "E", "F"}

OFFSCREEN == "OFFSCREEN"
ONSCREEN == "ONSCREEN"
MOVE_TO_POSITION == "MOVE_TO_POSITION"
FLY_LEFT == "FLY_LEFT"
FLY_RIGHT == "FLY_RIGHT"
AnimationState == {OFFSCREEN, ONSCREEN, MOVE_TO_POSITION, FLY_LEFT, FLY_RIGHT}

\* The forward rotation as a ring: a forward shuffle moves the card of
\* PositionCycle[i] to PositionCycle[i+1], the last one to the first.
PositionCycle == <<"center", "centerBack", "right2", "right1", "left2", "left1">>

Positions == {PositionCycle[i] : i \in 1..Len(PositionCycle)}

CycleIndex(pos) == CHOOSE i \in 1..Len(PositionCycle) : PositionCycle[i] = pos

\* getPositionConfig(pos).zIndex: the stacking rank of a slot, front highest.
BaseZIndex(pos) ==
    CASE pos = "center" -> 5
      [] pos = "centerBack" -> 4
      [] pos = "left1" -> 3
      [] pos = "left2" -> 2
      [] pos = "right1" -> 1
      [] pos = "right2" -> 0

NextPositionForward(pos) == PositionCycle[(CycleIndex(pos) % Len(PositionCycle)) + 1]

NextPositionBackward(pos) ==
    PositionCycle[((CycleIndex(pos) + Len(PositionCycle) - 2) % Len(PositionCycle)) + 1]

(***************************************************************************)
(* Photo provider                                                          *)
(***************************************************************************)
\* photoImages.length
NumPhotos == 12

(***************************************************************************)
(* Configuration                                                           *)
(***************************************************************************)
SHUFFLE_DELAY == 300

\* the stride by which a flown card's photo index advances
PhotoStride == 6

\* minSwipeDistance of handleTouchEnd
MinSwipeDistance == 50

\* the z-index that onAnimationComplete takes for the last card of the entrance
EntranceZIndex == 5

(***************************************************************************)
(* Shuffle engine                                                          *)
(***************************************************************************)
\* initializeCards(): the canonical starting layout.  The photo index of a
\* card is the number of forward shuffles that bring it to the front.
InitialPosition(c) ==
    CASE c = "A" -> "center"
      [] c = "B" -> "centerBack"
      [] c = "C" -> "left1"
      [] c = "D" -> "left2"
      [] c = "E" -> "right1"
      [] c = "F" -> "right2"

initializeCards ==
    [c \in CardIds |->
        [position |-> InitialPosition(c),
         zIndex |-> BaseZIndex(InitialPosition(c)),
         currentPhotoIndex |->
            (Len(PositionCycle) + 1 - CycleIndex(InitialPosition(c))) % Len(PositionCycle)]]

CardAt(cs, pos) == {c \in CardIds : cs[c].position = pos}

AllTo(state) == [c \in CardIds |-> state]

\* mutant: the card behind the front one is taken for the flying card
executeForwardShuffle_backFlies(cs) ==
    LET flying == CHOOSE c \in CardIds : cs[c].position = "centerBack"
    IN  [cardsWithOldZIndex |->
            [c \in CardIds |->
                [cs[c] EXCEPT !.position = NextPositionForward(cs[c].position)]],
         cardsWithNewZIndex |->
            [c \in CardIds |->
                [cs[c] EXCEPT !.position = NextPositionForward(cs[c].position),
                              !.zIndex = BaseZIndex(NextPositionForward(cs[c].position))]],
         animationStates |->
            [c \in CardIds |-> IF c = flying THEN FLY_LEFT ELSE MOVE_TO_POSITION],
         flyingCardId |-> flying]

executeForwardShuffle(cs) ==
    LET flying == CHOOSE c \in CardIds : cs[c].position = "center"
    IN  [cardsWithOldZIndex |->
            [c \in CardIds |->
                [cs[c] EXCEPT !.position = NextPositionForward(cs[c].position)]],
         cardsWithNewZIndex |->
            [c \in CardIds |->
                [cs[c] EXCEPT !.position = NextPositionForward(cs[c].position),
                              !.zIndex = BaseZIndex(NextPositionForward(cs[c].position))]],
         animationStates |->
            [c \in CardIds |-> IF c = flying THEN FLY_LEFT ELSE MOVE_TO_POSITION],
         flyingCardId |-> flying]

\* mutant: the backward shuffle rotates the slots the forward way
executeBackwardShuffle_forwardRing(cs) ==
    LET entering == CHOOSE c \in CardIds : cs[c].position = "centerBack"
    IN  [cardsWithOldZIndex |->
            [c \in CardIds |->
                [cs[c] EXCEPT !.position = NextPositionForward(cs[c].position)]],
         cardsWithNewZIndex |->
            [c \in CardIds |->
                [cs[c] EXCEPT !.position = NextPositionForward(cs[c].position),
                              !.zIndex = BaseZIndex(NextPositionForward(cs[c].position))]],
         animationStates |->
            [c \in CardIds |-> IF c = entering THEN FLY_RIGHT ELSE MOVE_TO_POSITION],
         flyingCardId |-> entering]

\* mutant: the entering card and the front card trade slots, the others stay
executeBackwardShuffle_swapOnly(cs) ==
    LET entering == CHOOSE c \in CardIds : cs[c].position = "centerBack"
        Swap(pos) == IF pos = "centerBack" THEN "center"
                     ELSE IF pos = "center" THEN "centerBack"
                     ELSE pos
    IN  [cardsWithOldZIndex |->
            [c \in CardIds |-> [cs[c] EXCEPT !.position = Swap(cs[c].position)]],
         cardsWithNewZIndex |->
            [c \in CardIds |->
                [cs[c] EXCEPT !.position = Swap(cs[c].position),
                              !.zIndex = BaseZIndex(Swap(cs[c].position))]],
         animationStates |->
            [c \in CardIds |-> IF c = entering THEN FLY_RIGHT ELSE MOVE_TO_POSITION],
         flyingCardId |-> entering]

executeBackwardShuffle(cs) ==
    LET entering == CHOOSE c \in CardIds : cs[c].position = "centerBack"
    IN  [cardsWithOldZIndex |->
            [c \in CardIds |->
                [cs[c] EXCEPT !.position = NextPositionBackward(cs[c].position)]],
         cardsWithNewZIndex |->
            [c \in CardIds |->
                [cs[c] EXCEPT !.position = NextPositionBackward(cs[c].position),
                              !.zIndex = BaseZIndex(NextPositionBackward(cs[c].position))]],
         animationStates |->
            [c \in CardIds |-> IF c = entering THEN FLY_RIGHT ELSE MOVE_TO_POSITION],
         flyingCardId |-> entering]

(***************************************************************************)
(* Collage controller: helpers                                             *)
(***************************************************************************)
\* mutant: the advance is written to the wrong field of the card
swapPhotoOnCardID_wrongField(cardId, cs) ==
    IF cardId \in CardIds
    THEN [cs EXCEPT ![cardId].zIndex = (@ + PhotoStride) % NumPhotos]
    ELSE cs

\* mutant: the advance does not wrap around the gallery
swapPhotoOnCardID_noWrap(cardId, cs) ==
    IF cardId \in CardIds
    THEN [cs EXCEPT ![cardId].currentPhotoIndex = @ + PhotoStride]
    ELSE cs

swapPhotoOnCardID(cardId, cs) ==
    IF cardId \in CardIds
    THEN [cs EXCEPT ![cardId].currentPhotoIndex = (@ + PhotoStride) % NumPhotos]
    ELSE cs

\* mutant: the previous photo is taken without wrapping below zero
swapPhotoBackShuffle_noWrap(cs) ==
    IF CardAt(cs, "centerBack") # {} /\ CardAt(cs, "center") # {}
    THEN LET centerBackCard == CHOOSE c \in CardIds : cs[c].position = "centerBack"
             centerCard == CHOOSE c \in CardIds : cs[c].position = "center"
         IN  [cs EXCEPT ![centerBackCard].currentPhotoIndex =
                 cs[centerCard].currentPhotoIndex - 1]
    ELSE cs

swapPhotoBackShuffle(cs) ==
    IF CardAt(cs, "centerBack") # {} /\ CardAt(cs, "center") # {}
    THEN LET centerBackCard == CHOOSE c \in CardIds : cs[c].position = "centerBack"
             centerCard == CHOOSE c \in CardIds : cs[c].position = "center"
         IN  [cs EXCEPT ![centerBackCard].currentPhotoIndex =
                 IF cs[centerCard].currentPhotoIndex = 0
                 THEN NumPhotos - 1
                 ELSE cs[centerCard].currentPhotoIndex - 1]
    ELSE cs

Locked == isAnimatingRef \/ buttonsDisabled

ForwardDelay == SHUFFLE_DELAY + 100

BackwardDelay == SHUFFLE_DELAY

\* mutant: the new z-order of a backward shuffle is committed after the unlock
BackwardNewZDelay_late == BackwardDelay * 2

\* mutant: the new z-order of a backward shuffle is committed with the unlock
BackwardNewZDelay_full == BackwardDelay

BackwardNewZDelay == BackwardDelay \div 2

Timer(kind, dir, delay, payload, fly, pre) ==
    [kind |-> kind, dir |-> dir, rem |-> delay, cards |-> payload, fly |-> fly, pre |-> pre]

Event(type, card, def, accepted) ==
    [type |-> type, card |-> card, def |-> def, accepted |-> accepted]

NoEvent == Event("none", "none", "NONE", FALSE)

Init ==
    /\ cards = initializeCards
    /\ animationStates = AllTo(OFFSCREEN)
    /\ hasCompletedEntrance = FALSE
    /\ isInView = FALSE
    /\ isAnimatingRef = FALSE
    /\ buttonsDisabled = FALSE
    /\ touchStartX = 0
    /\ touchStartY = 0
    /\ timers = <<>>
    /\ animating = AllTo("NONE")
    /\ clock = 0
    /\ everInView = FALSE
    /\ shuffleCount = 0
    /\ lastEvent = NoEvent

\* The rendering layer starts an animation for every card whose variant tag
\* changes.  Only the completions onAnimationComplete reacts to (ONSCREEN,
\* FLY_LEFT, FLY_RIGHT) are tracked; the others change nothing.
Tracked(state) == IF state \in {ONSCREEN, FLY_LEFT, FLY_RIGHT} THEN state ELSE "NONE"

StartAnimations(newStates, finished) ==
    [c \in CardIds |->
        IF newStates[c] # animationStates[c] THEN Tracked(newStates[c])
        ELSE IF c \in finished THEN "NONE"
        ELSE animating[c]]

lockVars == <<isAnimatingRef, buttonsDisabled>>
touchVars == <<touchStartX, touchStartY>>
viewVars == <<isInView, everInView>>
shuffleVars == <<cards, animationStates, isAnimatingRef, buttonsDisabled, timers,
                 animating, clock, shuffleCount>>

(***************************************************************************)
(* Collage controller: viewport and entrance                               *)
(***************************************************************************)
\* mutant: the effect does not look at hasCompletedEntrance
ViewportEnter_noFlagCheck ==
    /\ isInView' = TRUE
    /\ everInView' = TRUE
    /\ IF ~isInView
       THEN /\ animationStates' = AllTo(ONSCREEN)
            /\ animating' = StartAnimations(AllTo(ONSCREEN), {})
       ELSE UNCHANGED <<animationStates, animating>>
    /\ lastEvent' = Event("viewportEnter", "none", "NONE", FALSE)
    /\ UNCHANGED <<cards, hasCompletedEntrance, lockVars, touchVars, timers, clock,
                   shuffleCount>>

\* onViewportEnter, followed by the effect on [isInView, hasCompletedEntrance]
ViewportEnter ==
    /\ isInView' = TRUE
    /\ everInView' = TRUE
    /\ IF ~isInView /\ ~hasCompletedEntrance
       THEN /\ animationStates' = AllTo(ONSCREEN)
            /\ animating' = StartAnimations(AllTo(ONSCREEN), {})
       ELSE UNCHANGED <<animationStates, animating>>
    /\ lastEvent' = Event("viewportEnter", "none", "NONE", FALSE)
    /\ UNCHANGED <<cards, hasCompletedEntrance, lockVars, touchVars, timers, clock,
                   shuffleCount>>

\* onViewportLeave; the effect runs and finds isInView false
ViewportLeave ==
    /\ isInView' = FALSE
    /\ lastEvent' = Event("viewportLeave", "none", "NONE", FALSE)
    /\ UNCHANGED <<cards, animationStates, hasCompletedEntrance, lockVars, touchVars,
                   timers, animating, clock, everInView, shuffleCount>>

\* mutant: any card's ONSCREEN completion ends the entrance
CompletesEntrance_anyCard(c, def) ==
    def = ONSCREEN /\ ~hasCompletedEntrance

\* mutant: the last card of the entrance is looked for at z-index 6
CompletesEntrance_offByOne(c, def) ==
    def = ONSCREEN /\ cards[c].zIndex = EntranceZIndex + 1 /\ ~hasCompletedEntrance

\* does this completion end the entrance?
CompletesEntrance(c, def) ==
    def = ONSCREEN /\ cards[c].zIndex = EntranceZIndex /\ ~hasCompletedEntrance

\* onAnimationComplete(definition) of card c
AnimationComplete(c) ==
    /\ animating[c] # "NONE"
    /\ LET def == animating[c]
           entrance == CompletesEntrance(c, def)
           afterEntrance == IF entrance THEN AllTo(MOVE_TO_POSITION) ELSE animationStates
           afterFly == IF def \in {FLY_LEFT, FLY_RIGHT}
                       THEN [afterEntrance EXCEPT ![c] = MOVE_TO_POSITION]
                       ELSE afterEntrance
       IN  /\ hasCompletedEntrance' = (hasCompletedEntrance \/ entrance)
           /\ animationStates' = afterFly
           /\ animating' = StartAnimations(afterFly, {c})
           /\ lastEvent' = Event("animationComplete", c, def, entrance)
    /\ UNCHANGED <<cards, lockVars, touchVars, viewVars, timers, clock, shuffleCount>>

(***************************************************************************)
(* Collage controller: shuffles                                            *)
(***************************************************************************)
\* mutant: the delayed commit is handed the old-z-order array again
ForwardTimers_oldOrderAgain(r, pre) ==
    << Timer("unlock", "forward", ForwardDelay, r.cardsWithNewZIndex, r.flyingCardId, pre),
       Timer("newZ", "forward", SHUFFLE_DELAY, r.cardsWithOldZIndex, r.flyingCardId, pre),
       Timer("photo", "forward", ForwardDelay, r.cardsWithNewZIndex, r.flyingCardId, pre) >>

\* the three setTimeout calls of handleForwardShuffle, in registration order
ForwardTimers(r, pre) ==
    << Timer("unlock", "forward", ForwardDelay, r.cardsWithNewZIndex, r.flyingCardId, pre),
       Timer("newZ", "forward", SHUFFLE_DELAY, r.cardsWithNewZIndex, r.flyingCardId, pre),
       Timer("photo", "forward", ForwardDelay, r.cardsWithNewZIndex, r.flyingCardId, pre) >>

\* the two setTimeout calls of handleBackwardShuffle, in registration order
BackwardTimers(r, pre) ==
    << Timer("unlock", "backward", BackwardDelay, r.cardsWithNewZIndex, r.flyingCardId, pre),
       Timer("newZ", "backward", BackwardNewZDelay, r.cardsWithNewZIndex, r.flyingCardId, pre) >>

\* mutant: the handlers start without looking at the lock
RequestDropped_noGuard == FALSE

\* the guard both shuffle handlers start with
RequestDropped == isAnimatingRef \/ buttonsDisabled

\* what an accepted request does to the lock
TakeLock ==
    /\ isAnimatingRef' = TRUE
    /\ buttonsDisabled' = TRUE

handleForwardShuffle(source) ==
    IF RequestDropped
    THEN /\ lastEvent' = Event(source, "none", "forward", FALSE)
         /\ UNCHANGED shuffleVars
    ELSE LET r == executeForwardShuffle(cards)
         IN  /\ TakeLock
             /\ cards' = r.cardsWithOldZIndex
             /\ animationStates' = r.animationStates
             /\ animating' = [c \in CardIds |-> Tracked(r.animationStates[c])]
             /\ timers' = timers \o ForwardTimers(r, cards)
             /\ clock' = 0
             /\ shuffleCount' = shuffleCount + 1
             /\ lastEvent' = Event(source, r.flyingCardId, "forward", TRUE)

handleBackwardShuffle(source) ==
    IF RequestDropped
    THEN /\ lastEvent' = Event(source, "none", "backward", FALSE)
         /\ UNCHANGED shuffleVars
    ELSE LET cardsWithUpdatedPhoto == swapPhotoBackShuffle(cards)
             r == executeBackwardShuffle(cardsWithUpdatedPhoto)
         IN  /\ TakeLock
             /\ cards' = r.cardsWithOldZIndex
             /\ animationStates' = r.animationStates
             /\ animating' = [c \in CardIds |-> Tracked(r.animationStates[c])]
             /\ timers' = timers \o BackwardTimers(r, cards)
             /\ clock' = 0
             /\ shuffleCount' = shuffleCount + 1
             /\ lastEvent' = Event(source, r.flyingCardId, "backward", TRUE)

\* the arrow buttons are shown once the entrance has completed
ButtonForward ==
    /\ shuffleCount < MaxShuffles
    /\ hasCompletedEntrance
    /\ handleForwardShuffle("button")
    /\ UNCHANGED <<hasCompletedEntrance, touchVars, viewVars>>

ButtonBackward ==
    /\ shuffleCount < MaxShuffles
    /\ hasCompletedEntrance
    /\ handleBackwardShuffle("button")
    /\ UNCHANGED <<hasCompletedEntrance, touchVars, viewVars>>

(***************************************************************************)
(* Input adapter: touch gestures                                           *)
(***************************************************************************)
TouchXs == {0, 50, 105}
TouchYs == {0, 55}

Abs(n) == IF n < 0 THEN -n ELSE n

\* mutant: a displacement of exactly the threshold counts as a swipe
IsHorizontalSwipe_atThreshold(deltaX, deltaY) ==
    Abs(deltaX) > Abs(deltaY) /\ Abs(deltaX) >= MinSwipeDistance

IsHorizontalSwipe(deltaX, deltaY) ==
    Abs(deltaX) > Abs(deltaY) /\ Abs(deltaX) > MinSwipeDistance

\* the shuffle a gesture asks for: "NONE" when it is no horizontal swipe
GestureDir(deltaX, deltaY) ==
    IF IsHorizontalSwipe(deltaX, deltaY)
    THEN IF deltaX > 0 THEN "backward" ELSE "forward"
    ELSE "NONE"

handleTouchStart(x, y) ==
    /\ touchStartX' = x
    /\ touchStartY' = y
    /\ lastEvent' = NoEvent
    /\ UNCHANGED <<hasCompletedEntrance, viewVars, shuffleVars>>

handleTouchEnd(x, y) ==
    LET deltaX == x - touchStartX
        deltaY == y - touchStartY
        dir == GestureDir(deltaX, deltaY)
    IN  /\ IF ~hasCompletedEntrance \/ isAnimatingRef \/ buttonsDisabled
           THEN /\ lastEvent' = Event("touchEnd", "none", dir, FALSE)
                /\ UNCHANGED shuffleVars
           ELSE IF dir = "backward" THEN handleBackwardShuffle("swipe")
           ELSE IF dir = "forward" THEN handleForwardShuffle("swipe")
           ELSE /\ lastEvent' = Event("touchEnd", "none", dir, FALSE)
                /\ UNCHANGED shuffleVars
        /\ UNCHANGED <<hasCompletedEntrance, touchVars, viewVars>>

TouchStart == \E x \in TouchXs, y \in TouchYs : handleTouchStart(x, y)

TouchEnd ==
    /\ shuffleCount < MaxShuffles
    /\ \E x \in TouchXs, y \in TouchYs : handleTouchEnd(x, y)

(***************************************************************************)
(* Timers                                                                  *)
(***************************************************************************)
DueTimers == {i \in 1..Len(timers) : timers[i].rem = 0}

\* the event loop runs due callbacks in registration order
NextDue == CHOOSE i \in DueTimers : \A j \in DueTimers : i <= j

RemoveAt(seq, i) == SubSeq(seq, 1, i - 1) \o SubSeq(seq, i + 1, Len(seq))

MinRemaining ==
    CHOOSE d \in {timers[i].rem : i \in 1..Len(timers)} :
        \A j \in 1..Len(timers) : d <= timers[j].rem

\* time passes until the next timer is due
Advance ==
    /\ timers # <<>>
    /\ DueTimers = {}
    /\ timers' = [i \in 1..Len(timers) |->
                    [timers[i] EXCEPT !.rem = @ - MinRemaining]]
    /\ clock' = clock + MinRemaining
    /\ lastEvent' = NoEvent
    /\ UNCHANGED <<cards, animationStates, hasCompletedEntrance, lockVars, touchVars,
                   viewVars, animating, shuffleCount>>

\* setTimeout(() => { setButtonsDisabled(false); isAnimatingRef.current = false })
FireUnlock ==
    /\ DueTimers # {}
    /\ timers[NextDue].kind = "unlock"
    /\ buttonsDisabled' = FALSE
    /\ isAnimatingRef' = FALSE
    /\ timers' = RemoveAt(timers, NextDue)
    /\ lastEvent' = Event("unlock", "none", timers[NextDue].dir, FALSE)
    /\ UNCHANGED <<cards, animationStates, hasCompletedEntrance, touchVars, viewVars,
                   animating, clock, shuffleCount>>

\* setTimeout(() => setCards(shuffleResult.cardsWithNewZIndex))
FireNewZ ==
    /\ DueTimers # {}
    /\ timers[NextDue].kind = "newZ"
    /\ cards' = timers[NextDue].cards
    /\ timers' = RemoveAt(timers, NextDue)
    /\ lastEvent' = Event("newZ", "none", timers[NextDue].dir, FALSE)
    /\ UNCHANGED <<animationStates, hasCompletedEntrance, lockVars, touchVars, viewVars,
                   animating, clock, shuffleCount>>

\* setTimeout(() => setCards(swapPhotoOnCardID(flyingCardId, cardsWithNewZIndex)))
FirePhoto ==
    /\ DueTimers # {}
    /\ timers[NextDue].kind = "photo"
    /\ cards' = swapPhotoOnCardID(timers[NextDue].fly, timers[NextDue].cards)
    /\ timers' = RemoveAt(timers, NextDue)
    /\ lastEvent' = Event("photo", timers[NextDue].fly, timers[NextDue].dir, FALSE)
    /\ UNCHANGED <<animationStates, hasCompletedEntrance, lockVars, touchVars, viewVars,
                   animating, clock, shuffleCount>>

Next ==
    \/ ViewportEnter
    \/ ViewportLeave
    \/ \E c \in CardIds : AnimationComplete(c)
    \/ ButtonForward
    \/ ButtonBackward
    \/ TouchStart
    \/ TouchEnd
    \/ Advance
    \/ FireUnlock
    \/ FireNewZ
    \/ FirePhoto

Spec == Init /\ [][Next]_vars

(***************************************************************************)
(* The shuffle engine on its own: any valid assignment of the six cards,   *)
(* and the two operations applied to it.                                   *)
(***************************************************************************)
\* the slots form a bijection; the z-order is the steady one of the slots
ValidAssignments ==
    {[c \in CardIds |->
        [position |-> f[c],
         zIndex |-> BaseZIndex(f[c]),
         currentPhotoIndex |-> initializeCards[c].currentPhotoIndex]] :
        f \in {g \in [CardIds -> Positions] : \A c, d \in CardIds : c # d => g[c] # g[d]}}

controllerVars == <<animationStates, hasCompletedEntrance, isInView, isAnimatingRef,
                    buttonsDisabled, touchStartX, touchStartY, timers, animating, clock,
                    everInView, shuffleCount>>

EngineInit ==
    /\ cards \in ValidAssignments
    /\ animationStates = AllTo(MOVE_TO_POSITION)
    /\ hasCompletedEntrance = TRUE
    /\ isInView = TRUE
    /\ isAnimatingRef = FALSE
    /\ buttonsDisabled = FALSE
    /\ touchStartX = 0
    /\ touchStartY = 0
    /\ timers = <<>>
    /\ animating = AllTo("NONE")
    /\ clock = 0
    /\ everInView = TRUE
    /\ shuffleCount = 0
    /\ lastEvent = NoEvent

\* phase 1 of a shuffle: the rotated slots under the old z-order
EngineOldOrder ==
    /\ lastEvent.type = "none"
    /\ \E dir \in {"forward", "backward"} :
          /\ cards' = IF dir = "forward"
                      THEN executeForwardShuffle(cards).cardsWithOldZIndex
                      ELSE executeBackwardShuffle(cards).cardsWithOldZIndex
          /\ lastEvent' = Event("oldZ", "none", dir, TRUE)
    /\ UNCHANGED controllerVars

\* phase 2 of a shuffle: the rotated slots under the new z-order
EngineNewOrder ==
    /\ lastEvent.type = "none"
    /\ \E dir \in {"forward", "backward"} :
          /\ cards' = IF dir = "forward"
                      THEN executeForwardShuffle(cards).cardsWithNewZIndex
                      ELSE executeBackwardShuffle(cards).cardsWithNewZIndex
          /\ lastEvent' = Event("newZ", "none", dir, TRUE)
    /\ UNCHANGED controllerVars

EngineNext == EngineOldOrder \/ EngineNewOrder

EngineSpec == EngineInit /\ [][EngineNext]_vars

(***************************************************************************)
(* Properties                                                              *)
(***************************************************************************)
PositionsOf(cs) == {cs[c].position : c \in CardIds}

ZIndicesOf(cs) == {cs[c].zIndex : c \in CardIds}

SlotsDistinct(cs) == \A c, d \in CardIds : c # d => cs[c].position # cs[d].position

ZDistinct(cs) == \A c, d \in CardIds : c # d => cs[c].zIndex # cs[d].zIndex

\* C1 as stated: in every reachable state the six cards occupy six pairwise
\* distinct slots and hold six pairwise distinct z-index values forming {1..6}.
C1_BijectionOneToSix ==
    /\ SlotsDistinct(cards)
    /\ ZDistinct(cards)
    /\ ZIndicesOf(cards) = 1..6

\* C1 amended: in every reachable state the six cards occupy six pairwise
\* distinct slots and hold six pairwise distinct z-index values forming {0..5}
\* (the entrance handler takes 5 for the highest z-index).
C1_Bijection ==
    /\ SlotsDistinct(cards)
    /\ PositionsOf(cards) = Positions
    /\ ZDistinct(cards)
    /\ ZIndicesOf(cards) = 0..EntranceZIndex

\* C1 witness: after an old-z-order commit of a later shuffle, a card holds a
\* z-index that is not the one of its slot.
C1_Witness ==
    /\ shuffleCount >= 2
    /\ \E c \in CardIds : cards[c].zIndex # BaseZIndex(cards[c].position)

SamePositions(a, b) == \A c \in CardIds : a[c].position = b[c].position

\* C2: for every valid assignment, executeBackwardShuffle applied to the result
\* of executeForwardShuffle puts every card back on the slot it started from.
C2_ForwardThenBackwardRestoresSlots ==
    LET f == executeForwardShuffle(cards)
    IN  /\ SamePositions(executeBackwardShuffle(f.cardsWithNewZIndex).cardsWithNewZIndex, cards)
        /\ SamePositions(executeBackwardShuffle(f.cardsWithNewZIndex).cardsWithOldZIndex, cards)
        /\ SamePositions(executeBackwardShuffle(f.cardsWithOldZIndex).cardsWithNewZIndex, cards)
        /\ ~SamePositions(f.cardsWithNewZIndex, cards)

\* C2 witness: an assignment other than the starting layout to which a forward
\* shuffle has been applied.
C2_Witness ==
    /\ lastEvent.type = "newZ"
    /\ lastEvent.def = "forward"
    /\ cards["A"].position = "left2"
    /\ cards["B"].position = "center"

IsRequest(e) ==
    \/ e.type \in {"button", "swipe"}
    \/ e.type = "touchEnd" /\ e.def # "NONE"

\* C3: a shuffle request that arrives while the input lock is held is dropped
\* (no timer scheduled; cards, animationStates, the lock and
\* hasCompletedEntrance unchanged), and a request is accepted only with the
\* lock free and takes the lock in the same step.
C3_LockExclusivity ==
    [][ /\ (IsRequest(lastEvent') /\ Locked) =>
              /\ ~lastEvent'.accepted
              /\ UNCHANGED <<cards, animationStates, isAnimatingRef, buttonsDisabled,
                             hasCompletedEntrance, timers>>
        /\ (IsRequest(lastEvent') /\ lastEvent'.accepted) =>
              /\ ~Locked
              /\ Locked'
              /\ Len(timers') > Len(timers) ]_vars

\* C3 witness: a button request has just been dropped under the lock, with the
\* callbacks of the shuffle in flight still pending.
C3_Witness ==
    /\ lastEvent.type = "button"
    /\ ~lastEvent.accepted
    /\ Locked
    /\ timers # <<>>

PendingKinds == {timers[i].kind : i \in 1..Len(timers)}

\* C4: whenever the lock is free no new-z-order commit is pending, so both
\* z-order commits of every accepted shuffle fire before the lock is released.
C4_ZOrderCommitsBeforeUnlock == ~Locked => "newZ" \notin PendingKinds

\* C4 witness: the lock has just been released by the unlock callback of a
\* backward shuffle.
C4_Witness ==
    /\ lastEvent.type = "unlock"
    /\ lastEvent.def = "backward"
    /\ ~Locked

\* C5 as stated: whenever the lock is free, no callback that writes the cards
\* state (new z-order, photo advance) is still pending.
C5_PhotoAdvancedBeforeUnlock ==
    ~Locked => (PendingKinds \cap {"newZ", "photo"}) = {}

IsBackwardNewZ == FireNewZ /\ timers[NextDue].dir = "backward"

IsBackwardUnlock == FireUnlock /\ timers[NextDue].dir = "backward"

\* C6 as stated: the new z-order of a backward shuffle is committed
\* SHUFFLE_DELAY ms after the request is accepted.
C6_BackwardNewZAtFullDelay == [][IsBackwardNewZ => clock = SHUFFLE_DELAY]_vars

\* C6 amended: the new z-order of a backward shuffle is committed
\* SHUFFLE_DELAY / 2 ms after the request is accepted, with the lock still
\* held; the lock is released SHUFFLE_DELAY ms after the request is accepted.
C6_BackwardNewZAtHalfDelay ==
    [][ /\ IsBackwardNewZ => (2 * clock = SHUFFLE_DELAY /\ Locked /\ Locked')
        /\ IsBackwardUnlock => (clock = SHUFFLE_DELAY /\ "newZ" \notin PendingKinds) ]_vars

\* C6 witness: the new z-order of a backward shuffle has just been committed
\* and the unlock callback is still half a delay away.
C6_Witness ==
    /\ lastEvent.type = "newZ"
    /\ lastEvent.def = "backward"
    /\ Locked
    /\ \E i \in 1..Len(timers) : timers[i].kind = "unlock" /\ 2 * timers[i].rem = SHUFFLE_DELAY

PhotoOf(cs, c) == cs[c].currentPhotoIndex

\* the photos of pre and post differ at most on the card changed
OnlyPhotoChanged(pre, post, changed) ==
    \A c \in CardIds \ {changed} : PhotoOf(post, c) = PhotoOf(pre, c)

\* C7: an accepted backward shuffle gives the card that enters the front slot
\* (the former centerBack card) the photo index (f - 1) mod N, f the photo
\* index of the card in the front slot before the shuffle, and changes no
\* other card's photo index; the new-z-order commit of that shuffle carries
\* the same photo indices.
C7_BackwardPhotoContinuity ==
    [][ /\ (IsRequest(lastEvent') /\ lastEvent'.accepted /\ lastEvent'.def = "backward") =>
              \E e \in CardAt(cards, "centerBack"), front \in CardAt(cards, "center") :
                  /\ cards'[e].position = "center"
                  /\ PhotoOf(cards', e) = (PhotoOf(cards, front) - 1) % NumPhotos
                  /\ OnlyPhotoChanged(cards, cards', e)
        /\ IsBackwardNewZ =>
              \E e \in CardAt(timers[NextDue].pre, "centerBack"),
                 front \in CardAt(timers[NextDue].pre, "center") :
                  /\ cards'[e].position = "center"
                  /\ PhotoOf(cards', e) = (PhotoOf(timers[NextDue].pre, front) - 1) % NumPhotos
                  /\ OnlyPhotoChanged(timers[NextDue].pre, cards', e) ]_vars

\* C7 witness: a backward shuffle was accepted with photo 0 in front, and the
\* entering card shows the last photo of the gallery.
C7_Witness ==
    /\ IsRequest(lastEvent)
    /\ lastEvent.accepted
    /\ lastEvent.def = "backward"
    /\ \E e \in CardAt(cards, "center") : PhotoOf(cards, e) = NumPhotos - 1

\* C8: the photo-advance commit of a forward shuffle changes the photo index
\* of exactly one card, the card that was in the front slot before the
\* shuffle: its index becomes (old + 6) mod N; slots and z-indices after the
\* step are those of the new-z-order commit.
C8_ForwardPhotoAdvance ==
    [][ FirePhoto =>
          LET t == timers[NextDue]
          IN  \E fly \in CardAt(t.pre, "center") :
                  /\ fly = t.fly
                  /\ PhotoOf(cards', fly) = (PhotoOf(t.pre, fly) + 6) % NumPhotos
                  /\ PhotoOf(cards', fly) # PhotoOf(t.pre, fly)
                  /\ OnlyPhotoChanged(t.pre, cards', fly)
                  /\ \A c \in CardIds :
                        /\ cards'[c].position = t.cards[c].position
                        /\ cards'[c].zIndex = t.cards[c].zIndex
                        /\ cards'[c].position = NextPositionForward(t.pre[c].position) ]_vars

\* C8 witness: the photo advance of a flown card has just wrapped around the
\* gallery (11 + 6 = 5 mod 12).
C8_Witness ==
    /\ lastEvent.type = "photo"
    /\ cards[lastEvent.card].position = "centerBack"
    /\ PhotoOf(cards, lastEvent.card) = 5
    /\ shuffleCount = 2

MaxZIndex(cs) == CHOOSE z \in ZIndicesOf(cs) : \A c \in CardIds : cs[c].zIndex <= z

\* C9: hasCompletedEntrance only ever changes from false to true, and only in
\* the step that handles the ONSCREEN completion of the card holding the
\* highest z-index, after the viewport has been entered.
C9_EntranceGating ==
    [][ hasCompletedEntrance' # hasCompletedEntrance =>
          /\ ~hasCompletedEntrance
          /\ hasCompletedEntrance'
          /\ lastEvent'.type = "animationComplete"
          /\ lastEvent'.def = ONSCREEN
          /\ animating[lastEvent'.card] = ONSCREEN
          /\ cards[lastEvent'.card].zIndex = MaxZIndex(cards)
          /\ everInView ]_vars

\* C9 witness: the entrance has just been completed by the ONSCREEN completion
\* of the front card, before any shuffle.
C9_Witness ==
    /\ hasCompletedEntrance
    /\ lastEvent.type = "animationComplete"
    /\ lastEvent.accepted
    /\ shuffleCount = 0

AllMoveToPosition == \A c \in CardIds : animationStates[c] = MOVE_TO_POSITION

\* every ONSCREEN animation that stays in flight eventually reports completion
FairSpec == Spec /\ \A c \in CardIds : WF_vars(AnimationComplete(c))

\* C10: once the viewport has been entered, the controller eventually reaches
\* a state with hasCompletedEntrance true and all six cards in MOVE_TO_POSITION.
C10_EntranceCompletes == everInView ~> (hasCompletedEntrance /\ AllMoveToPosition)

\* C10 witness: the entrance is complete and every card is in MOVE_TO_POSITION.
C10_Witness ==
    /\ everInView
    /\ hasCompletedEntrance
    /\ AllMoveToPosition
    /\ lastEvent.type = "animationComplete"
    /\ lastEvent.def = ONSCREEN

\* the state a shuffle handler writes, as the forward button leaves it
ForwardShuffleEffect ==
    LET r == executeForwardShuffle(cards)
    IN  /\ cards' = r.cardsWithOldZIndex
        /\ animationStates' = r.animationStates
        /\ animationStates'[CHOOSE c \in CardIds : cards[c].position = "center"] = FLY_LEFT
        /\ timers' = timers \o ForwardTimers(r, cards)
        /\ Locked'

\* the state a shuffle handler writes, as the backward button leaves it
BackwardShuffleEffect ==
    LET r == executeBackwardShuffle(swapPhotoBackShuffle(cards))
    IN  /\ cards' = r.cardsWithOldZIndex
        /\ animationStates' = r.animationStates
        /\ animationStates'[CHOOSE c \in CardIds : cards[c].position = "centerBack"] = FLY_RIGHT
        /\ timers' = timers \o BackwardTimers(r, cards)
        /\ Locked'

NoShuffleEffect ==
    UNCHANGED <<cards, animationStates, hasCompletedEntrance, isInView, isAnimatingRef,
                buttonsDisabled, touchStartX, touchStartY, timers, animating,
                shuffleCount>>

\* what a touch end at (x, y) does, given whether the gesture may shuffle at all
GestureOutcome(x, y, mayShuffle) ==
    LET dx == x - touchStartX
        dy == y - touchStartY
        isSwipe == Abs(dx) > 50 /\ Abs(dx) > Abs(dy)
    IN  IF mayShuffle /\ isSwipe
        THEN /\ dx < 0 => ForwardShuffleEffect
             /\ dx > 0 => BackwardShuffleEffect
        ELSE NoShuffleEffect

\* C11 as stated: a touch end with displacement (dx, dy) triggers a shuffle if
\* and only if |dx| > 50 and |dx| > |dy|, forward for dx < 0 and backward for
\* dx > 0, with the effect of the button; every other gesture changes no state.
C11_SwipeAlwaysShuffles ==
    [][ \A x \in TouchXs, y \in TouchYs :
            (shuffleCount < MaxShuffles /\ handleTouchEnd(x, y)) =>
                GestureOutcome(x, y, TRUE) ]_vars

\* C11 amended: once the entrance has completed and while the lock is free, a
\* touch end with displacement (dx, dy) triggers a shuffle if and only if
\* |dx| > 50 and |dx| > |dy|, forward for dx < 0 and backward for dx > 0, with
\* the effect of the button; every other touch end changes no state.
C11_SwipeShufflesWhenIdle ==
    [][ \A x \in TouchXs, y \in TouchYs :
            (shuffleCount < MaxShuffles /\ handleTouchEnd(x, y)) =>
                GestureOutcome(x, y, hasCompletedEntrance /\ ~Locked) ]_vars

\* C11 witness: a leftward swipe has just been accepted as a forward shuffle.
C11_Witness ==
    /\ lastEvent.type = "swipe"
    /\ lastEvent.accepted
    /\ lastEvent.def = "forward"
    /\ Locked

(***************************************************************************)
(* Photo provider.  A text is a sequence of pieces: fixed strings and the  *)
(* characters of a number.                                                 *)
(***************************************************************************)
DigitChars == <<"0", "1", "2", "3", "4", "5", "6", "7", "8", "9">>

RECURSIVE ToDigits(_)
\* String(n) for n >= 0
ToDigits(n) ==
    IF n < 10 THEN <<DigitChars[n + 1]>>
    ELSE ToDigits(n \div 10) \o <<DigitChars[(n % 10) + 1]>>

\* mutant: the footer number is not padded
PadStart_noPad(text, targetLength, pad) == text

RECURSIVE PadStart(_, _, _)
\* text.padStart(targetLength, pad) for a one-character pad
PadStart(text, targetLength, pad) ==
    IF Len(text) >= targetLength THEN text
    ELSE PadStart(<<pad>> \o text, targetLength, pad)

\* the gallery, as stored
photoImages ==
    <<
       [title |-> <<"Photo #", "1", ", Norman, Okla.">>, footer |-> <<"DEMO-", "0", "0", "1">>],
       [title |-> <<"Photo #", "2", ", Norman, Okla.">>, footer |-> <<"DEMO-", "0", "0", "2">>],
       [title |-> <<"Photo #", "3", ", Norman, Okla.">>, footer |-> <<"DEMO-", "0", "0", "3">>],
       [title |-> <<"Photo #", "4", ", Norman, Okla.">>, footer |-> <<"DEMO-", "0", "0", "4">>],
       [title |-> <<"Photo #", "5", ", Norman, Okla.">>, footer |-> <<"DEMO-", "0", "0", "5">>],
       [title |-> <<"Photo #", "6", ", Norman, Okla.">>, footer |-> <<"DEMO-", "0", "0", "6">>],
       [title |-> <<"Photo #", "7", ", Norman, Okla.">>, footer |-> <<"DEMO-", "0", "0", "7">>],
       [title |-> <<"Photo #", "8", ", Norman, Okla.">>, footer |-> <<"DEMO-", "0", "0", "8">>],
       [title |-> <<"Photo #", "9", ", Norman, Okla.">>, footer |-> <<"DEMO-", "0", "0", "9">>],
       [title |-> <<"Photo #", "1", "0", ", Norman, Okla.">>, footer |-> <<"DEMO-", "0", "1", "0">>],
       [title |-> <<"Photo #", "1", "1", ", Norman, Okla.">>, footer |-> <<"DEMO-", "0", "1", "1">>],
       [title |-> <<"Photo #", "1", "2", ", Norman, Okla.">>, footer |-> <<"DEMO-", "0", "1", "2">>]
    >>

PhotoError == [error |-> TRUE, title |-> <<>>, footer |-> <<>>, demoNumber |-> 0]

\* mutant: index 0 is rejected with the negative ones
getPhotoData_zeroRejected(index) ==
    IF index <= 0 THEN PhotoError
    ELSE IF index < Len(photoImages)
    THEN [error |-> FALSE,
          title |-> photoImages[index + 1].title,
          footer |-> photoImages[index + 1].footer,
          demoNumber |-> index + 1]
    ELSE [error |-> FALSE,
          title |-> <<"Photo #">> \o ToDigits(index + 1) \o <<", Norman, Okla.">>,
          footer |-> <<"DEMO-">> \o PadStart(ToDigits(index + 1), 3, "0"),
          demoNumber |-> index + 1]

\* getPhotoData(index): a thrown Error is the datum PhotoError
getPhotoData(index) ==
    IF index < 0 THEN PhotoError
    ELSE IF index < Len(photoImages)
    THEN [error |-> FALSE,
          title |-> photoImages[index + 1].title,
          footer |-> photoImages[index + 1].footer,
          demoNumber |-> index + 1]
    ELSE [error |-> FALSE,
          title |-> <<"Photo #">> \o ToDigits(index + 1) \o <<", Norman, Okla.">>,
          footer |-> <<"DEMO-">> \o PadStart(ToDigits(index + 1), 3, "0"),
          demoNumber |-> index + 1]

\* the indices the provider is asked for when it is exercised on its own
PhotoIndices == (-3..15) \cup {98, 99, 998, 999, 1000}

\* the provider on its own: one card carries an arbitrary index and the
\* render asks the provider for the photo of a card
PhotoInit ==
    /\ \E c \in CardIds, i \in PhotoIndices :
          cards = [initializeCards EXCEPT ![c].currentPhotoIndex = i]
    /\ animationStates = AllTo(MOVE_TO_POSITION)
    /\ hasCompletedEntrance = TRUE
    /\ isInView = TRUE
    /\ isAnimatingRef = FALSE
    /\ buttonsDisabled = FALSE
    /\ touchStartX = 0
    /\ touchStartY = 0
    /\ timers = <<>>
    /\ animating = AllTo("NONE")
    /\ clock = 0
    /\ everInView = TRUE
    /\ shuffleCount = 0
    /\ lastEvent = NoEvent

\* const photoData = getPhotoData(card.currentPhotoIndex)
PhotoRender ==
    /\ \E c \in CardIds :
          LET photoData == getPhotoData(cards[c].currentPhotoIndex)
          IN  lastEvent' = Event("render", c, photoData, ~photoData.error)
    /\ UNCHANGED <<cards, controllerVars>>

PhotoSpec == PhotoInit /\ [][PhotoRender]_vars

\* C12: in every reachable state every card's currentPhotoIndex lies in
\* 0..N-1, so the render never gets the invalid-index error from the provider.
C12_PhotoIndexInRange ==
    \A c \in CardIds :
        /\ cards[c].currentPhotoIndex >= 0
        /\ cards[c].currentPhotoIndex < 12
        /\ ~getPhotoData(cards[c].currentPhotoIndex).error

\* C12 witness: a backward shuffle from photo 0 has wrapped the entering card
\* to the last photo, and a forward shuffle has advanced a card past 5.
C12_Witness ==
    /\ \E c \in CardIds : cards[c].currentPhotoIndex = 11
    /\ \E c \in CardIds : cards[c].currentPhotoIndex \in 6..10

\* C13: getPhotoData fails exactly for the negative indices and returns a
\* datum with a title and a footer for every index >= 0.
C13_ErrorIffNegative ==
    \A c \in CardIds :
        LET index == cards[c].currentPhotoIndex
            photoData == getPhotoData(index)
        IN  /\ index < 0 => photoData.error
            /\ index >= 0 =>
                  /\ ~photoData.error
                  /\ Len(photoData.title) > 0
                  /\ Len(photoData.footer) > 0

\* C13 witness: the render has just got the error for a negative index.
C13_Witness ==
    /\ lastEvent.type = "render"
    /\ cards[lastEvent.card].currentPhotoIndex = -1
    /\ ~lastEvent.accepted

DigitValue(ch) == (CHOOSE d \in 1..Len(DigitChars) : DigitChars[d] = ch) - 1

IsDigit(ch) == \E d \in 1..Len(DigitChars) : DigitChars[d] = ch

RECURSIVE DecimalValue(_)
\* the number a sequence of digit characters denotes
DecimalValue(text) ==
    IF text = <<>> THEN 0
    ELSE 10 * DecimalValue(SubSeq(text, 1, Len(text) - 1)) + DigitValue(text[Len(text)])

AllDigits(text) == \A k \in 1..Len(text) : IsDigit(text[k])

\* text is n written in decimal, left-padded with zeros to at least width characters
IsZeroPadded(text, n, width) ==
    /\ AllDigits(text)
    /\ Len(text) >= width
    /\ DecimalValue(text) = n
    /\ Len(text) > width => text[1] # "0"

\* C14: for 0 <= index < N getPhotoData returns the title and footer stored at
\* that index; for index >= N it returns a synthesized datum whose title
\* number is index+1 and whose footer is index+1 left-padded with zeros to at
\* least 3 digits.
C14_StoredOrSynthesized ==
    \A c \in CardIds :
        LET index == cards[c].currentPhotoIndex
            photoData == getPhotoData(index)
            number == SubSeq(photoData.title, 2, Len(photoData.title) - 1)
        IN  /\ (index >= 0 /\ index < 12) =>
                  /\ photoData.title = photoImages[index + 1].title
                  /\ photoData.footer = photoImages[index + 1].footer
            /\ index >= 12 =>
                  /\ photoData.title[1] = "Photo #"
                  /\ photoData.title[Len(photoData.title)] = ", Norman, Okla."
                  /\ IsZeroPadded(number, index + 1, 1)
                  /\ photoData.demoNumber = index + 1
                  /\ photoData.footer[1] = "DEMO-"
                  /\ IsZeroPadded(Tail(photoData.footer), index + 1, 3)

\* C14 witness: the render has just got a synthesized datum whose footer has
\* four digits (index 999, footer DEMO-1000).
C14_Witness ==
    /\ lastEvent.type = "render"
    /\ cards[lastEvent.card].currentPhotoIndex = 999
    /\ lastEvent.def.footer = <<"DEMO-", "1", "0", "0", "0">>

\* the slot a forward shuffle sends the card of slot pos to, read off the
\* engine's result on the starting layout
ForwardSlotMap(pos) ==
    LET c == CHOOSE d \in CardIds : initializeCards[d].position = pos
    IN  executeForwardShuffle(initializeCards).cardsWithNewZIndex[c].position

RECURSIVE ForwardTimes(_, _)
\* the assignment after n forward shuffles
ForwardTimes(cs, n) ==
    IF n = 0 THEN cs
    ELSE ForwardTimes(executeForwardShuffle(cs).cardsWithNewZIndex, n - 1)

\* C15: executeForwardShuffle marks exactly the card in the front slot as
\* FLY_LEFT and every other card as MOVE_TO_POSITION, reports that card as
\* flyingCardId, and moves the cards by one fixed cyclic permutation of the six
\* slots: six applications, and no fewer, return every card to its slot.
C15_ForwardShuffle ==
    LET r == executeForwardShuffle(cards)
    IN  /\ {c \in CardIds : r.animationStates[c] = FLY_LEFT} = CardAt(cards, "center")
        /\ \A c \in CardIds \ CardAt(cards, "center") :
              r.animationStates[c] = MOVE_TO_POSITION
        /\ CardAt(cards, "center") = {r.flyingCardId}
        /\ \A c \in CardIds :
              /\ r.cardsWithNewZIndex[c].position = ForwardSlotMap(cards[c].position)
              /\ r.cardsWithOldZIndex[c].position = ForwardSlotMap(cards[c].position)
        /\ SlotsDistinct(r.cardsWithNewZIndex)
        /\ SamePositions(ForwardTimes(cards, 6), cards)
        /\ \A n \in 1..5, c \in CardIds :
              ForwardTimes(cards, n)[c].position # cards[c].position

\* C15 witness: the forward shuffle has been applied to the starting layout:
\* the front card A is behind, the card C of left1 is in front.
C15_Witness ==
    /\ lastEvent.type = "oldZ"
    /\ lastEvent.def = "forward"
    /\ cards["A"].position = "centerBack"
    /\ cards["C"].position = "center"

\* C16: executeBackwardShuffle moves the card of the centerBack slot into the
\* front slot and marks exactly that card as FLY_RIGHT, and moves every other
\* card one slot along the reverse of the forward rotation.
C16_BackwardShuffle ==
    LET r == executeBackwardShuffle(cards)
    IN  /\ \A c \in CardAt(cards, "centerBack") :
              /\ r.cardsWithNewZIndex[c].position = "center"
              /\ r.cardsWithOldZIndex[c].position = "center"
        /\ {c \in CardIds : r.animationStates[c] = FLY_RIGHT} = CardAt(cards, "centerBack")
        /\ \A c \in CardIds \ CardAt(cards, "centerBack") :
              r.animationStates[c] = MOVE_TO_POSITION
        /\ \A c \in CardIds :
              /\ ForwardSlotMap(r.cardsWithNewZIndex[c].position) = cards[c].position
              /\ ForwardSlotMap(r.cardsWithOldZIndex[c].position) = cards[c].position
        /\ SlotsDistinct(r.cardsWithNewZIndex)

\* C16 witness: the backward shuffle has been applied to the starting layout:
\* the card B of centerBack is in front, the front card A has retreated.
C16_Witness ==
    /\ lastEvent.type = "newZ"
    /\ lastEvent.def = "backward"
    /\ cards["B"].position = "center"
    /\ cards["A"].position = "left1"

\* the new-z-order commits that the step has scheduled
ScheduledNewZ ==
    {timers'[i].cards : i \in {j \in (Len(timers) + 1)..Len(timers') : timers'[j].kind = "newZ"}}

\* C17: the state a shuffle commits in phase 1 and the state it commits in
\* phase 2 give every card the same slot and the same photo index; phase 1
\* keeps each card's pre-shuffle z-index, phase 2 gives each card the z-index
\* of its post-rotation slot, and phase 2 commits exactly the scheduled state.
C17_TwoPhaseCommit ==
    [][ /\ (IsRequest(lastEvent') /\ lastEvent'.accepted) =>
              /\ Cardinality(ScheduledNewZ) = 1
              /\ \A phase2 \in ScheduledNewZ, c \in CardIds :
                    /\ phase2[c].position = cards'[c].position
                    /\ phase2[c].currentPhotoIndex = cards'[c].currentPhotoIndex
                    /\ cards'[c].position # cards[c].position
                    /\ cards'[c].zIndex = cards[c].zIndex
                    /\ phase2[c].zIndex = BaseZIndex(phase2[c].position)
        /\ FireNewZ => cards' = timers[NextDue].cards ]_vars

\* C17 witness: phase 1 of a backward shuffle is committed and phase 2 is
\* pending with another z-order on the same slots.
C17_Witness ==
    /\ IsRequest(lastEvent)
    /\ lastEvent.accepted
    /\ lastEvent.def = "backward"
    /\ \E i \in 1..Len(timers) :
          /\ timers[i].kind = "newZ"
          /\ SamePositions(timers[i].cards, cards)
          /\ \E c \in CardIds : timers[i].cards[c].zIndex # cards[c].zIndex

IsViewportEvent(e) == e.type \in {"viewportEnter", "viewportLeave"}

\* C18: once hasCompletedEntrance is true, viewport-leave and viewport-enter
\* events leave cards, animationStates and the lock unchanged (and start no
\* animation and no timer), and no card is in OFFSCREEN or ONSCREEN again.
C18_EntranceRunsOnce ==
    /\ [](hasCompletedEntrance =>
            \A c \in CardIds :
                /\ animationStates[c] \notin {OFFSCREEN, ONSCREEN}
                /\ animating[c] # ONSCREEN)
    /\ [][ (hasCompletedEntrance /\ IsViewportEvent(lastEvent')) =>
              UNCHANGED <<cards, animationStates, isAnimatingRef, buttonsDisabled,
                          hasCompletedEntrance, timers, animating>> ]_vars

\* C18 witness: after the entrance and a shuffle, the viewport has just been
\* entered again.
C18_Witness ==
    /\ hasCompletedEntrance
    /\ shuffleCount >= 1
    /\ lastEvent.type = "viewportEnter"
    /\ isInView

====
